---- MODULE Spec2Model ----
(***************************************************************************)
(* Model of the Rust Documentation Search MCP Server (rust_docs_mcp_server) *)
(*                                                                         *)
(*   utils/config.py      ServerConfig, load_config                        *)
(*   server.py            create_server, main                              *)
(*   tools/search_tools.py  the three tool definitions and implementations *)
(*                                                                         *)
(* Text is modelled as sequences of one-character strings so that int(),   *)
(* float(), str.split(",") and Path.resolve() are computed, not assumed.   *)
(* Floats are carried in hundredths (0.7 is Float(70)); NaN is its own     *)
(* value.  Dictionary keys and tool arguments that are never parsed are    *)
(* plain strings.                                                          *)
(***************************************************************************)
EXTENDS Integers, Sequences, FiniteSets, TLC

VARIABLES
    environ,      \* os.environ restricted to the RUST_DOCS_* variables
    argv_config,  \* args.config: is a --config path given on the command line
    cfgfile,      \* what lies at the config path on disk
    mkdir_fails,  \* does Path.mkdir fail for a supplied db_path
    dirs,         \* directories created so far by validate_db_path
    loaded,       \* outcome of the most recent load_config call
    config,       \* server.py's module-level attribute `config`
    server,       \* the FastMCP instance most recently built by create_server
    pc,           \* the process: "start", "imported" (the package is used
                  \* as a library, as the tests use it), "running" (main
                  \* is serving) or "exited"
    call,         \* the most recent tool call (tool and bound arguments)
    response      \* the value that call returned

vars == <<environ, argv_config, cfgfile, mkdir_fails, dirs, loaded, config,
          server, pc, call, response>>

(***************************************************************************)
(* Bounds of the model.                                                    *)
(***************************************************************************)
\* at most this many RUST_DOCS_* variables are set in the environment
MaxEnvVars == 1
\* at most this many keys appear in a config file holding a JSON object
MaxFileFields == 1

(***************************************************************************)
(* Python values.                                                          *)
(***************************************************************************)
None == [t |-> "None"]
PyStr(s) == [t |-> "str", v |-> s]
PyInt(n) == [t |-> "int", v |-> n]
PyFloat(x) == [t |-> "float", v |-> x]
PyList(l) == [t |-> "list", v |-> l]
PyBool(b) == [t |-> "bool", v |-> b]
PyDict(f) == [t |-> "dict", v |-> f]
\* a string that is used as a dictionary key
PyKey(k) == [t |-> "key", v |-> k]

\* a float in hundredths, or NaN
Float(x) == [nan |-> FALSE, x |-> x]
NaN == [nan |-> TRUE, x |-> 0]

Digits == {"0", "1", "2", "3", "4", "5", "6", "7", "8", "9"}

DigitVal(c) ==
    CASE c = "0" -> 0 [] c = "1" -> 1 [] c = "2" -> 2 [] c = "3" -> 3
      [] c = "4" -> 4 [] c = "5" -> 5 [] c = "6" -> 6 [] c = "7" -> 7
      [] c = "8" -> 8 [] c = "9" -> 9

AllDigits(s) == Len(s) > 0 /\ \A i \in 1..Len(s) : s[i] \in Digits

RECURSIVE DecValue(_)
DecValue(s) ==
    IF s = <<>> THEN 0
    ELSE 10 * DecValue(SubSeq(s, 1, Len(s) - 1)) + DigitVal(s[Len(s)])

ValueError == [t |-> "ValueError"]

Unsigned(s) == IF s # <<>> /\ s[1] \in {"-", "+"} THEN Tail(s) ELSE s
Sign(s) == IF s # <<>> /\ s[1] = "-" THEN -1 ELSE 1

\* int(s): an optional sign and decimal digits, anything else is a ValueError
py_int(s) ==
    IF AllDigits(Unsigned(s)) THEN PyInt(Sign(s) * DecValue(Unsigned(s)))
    ELSE ValueError

DotAt(s) == {i \in 1..Len(s) : s[i] = "."}

\* the digits after the point, as hundredths
Hundredths(f) ==
    IF Len(f) = 0 THEN 0
    ELSE IF Len(f) = 1 THEN 10 * DigitVal(f[1])
    ELSE 10 * DigitVal(f[1]) + DigitVal(f[2])

\* the float with integer part ip and fraction fp, both digit strings
FloatParts(sg, ip, fp) ==
    IF /\ Len(ip) + Len(fp) > 0
       /\ \A i \in 1..Len(ip) : ip[i] \in Digits
       /\ \A i \in 1..Len(fp) : fp[i] \in Digits
    THEN PyFloat(Float(sg * (100 * DecValue(ip) + Hundredths(fp))))
    ELSE ValueError

FloatAt(sg, u, d) == FloatParts(sg, SubSeq(u, 1, d - 1), SubSeq(u, d + 1, Len(u)))

FloatOf(sg, u) ==
    IF u = <<"n", "a", "n">> THEN PyFloat(NaN)
    ELSE IF Cardinality(DotAt(u)) = 0 THEN FloatParts(sg, u, <<>>)
    ELSE IF Cardinality(DotAt(u)) = 1
    THEN FloatAt(sg, u, CHOOSE i \in DotAt(u) : TRUE)
    ELSE ValueError

\* float(s): "nan", or an optional sign, digits and at most one point
py_float(s) == FloatOf(Sign(s), Unsigned(s))

\* s.split(","): the pieces between the commas, empty pieces included
RECURSIVE py_split(_)
py_split(s) ==
    LET commas == {i \in 1..Len(s) : s[i] = ","} IN
    IF commas = {} THEN <<s>>
    ELSE LET c == CHOOSE i \in commas : \A j \in commas : i <= j
         IN  <<SubSeq(s, 1, c - 1)>> \o py_split(SubSeq(s, c + 1, Len(s)))

(***************************************************************************)
(* pathlib                                                                 *)
(***************************************************************************)
Cwd == <<"/", "w">>

\* Path(s).expanduser().resolve(): an absolute path is kept, a relative one
\* is joined to the working directory with its leading "./" dropped
resolve(p) ==
    IF p # <<>> /\ p[1] = "/" THEN p
    ELSE LET q == IF Len(p) >= 2 /\ p[1] = "." /\ p[2] = "/"
                  THEN SubSeq(p, 3, Len(p)) ELSE p
         IN  Cwd \o <<"/">> \o q

\* Path.name: the final component
PathName(p) ==
    LET slashes == {i \in 1..Len(p) : p[i] = "/"} IN
    IF slashes = {} THEN p
    ELSE LET l == CHOOSE i \in slashes : \A j \in slashes : j <= i
         IN  SubSeq(p, l + 1, Len(p))

(***************************************************************************)
(* utils/config.py: class ServerConfig                                     *)
(***************************************************************************)
Fields == {"db_path", "cache_size_limit", "cache_ttl", "default_crates",
           "max_search_results", "fuzzy_match_threshold"}

DefaultDbPath ==
    <<".", "/", "r", "u", "s", "t", "_", "d", "o", "c", "s", "_", "d", "b">>
DefaultCacheSizeLimit == 1024 * 1024 * 1024
DefaultCacheTtl == 7 * 24 * 60 * 60
DefaultCrates == << <<"s", "t", "d">> >>
DefaultMaxSearchResults == 10
DefaultFuzzyMatchThreshold == 70

\* the field defaults; pydantic does not pass a default through a validator
Defaults ==
    [db_path |-> DefaultDbPath,
     cache_size_limit |-> DefaultCacheSizeLimit,
     cache_ttl |-> DefaultCacheTtl,
     default_crates |-> DefaultCrates,
     max_search_results |-> DefaultMaxSearchResults,
     fuzzy_match_threshold |-> Float(DefaultFuzzyMatchThreshold)]

Valid(x) == [ok |-> TRUE, v |-> x]
Invalid == [ok |-> FALSE]

\* pydantic's conversion of an input to the annotated type of a field
Parsed(r, type) == IF r.t = type THEN Valid(r.v) ELSE Invalid

AsPath(x) == IF x.t = "str" THEN Valid(x.v) ELSE Invalid

AsInt(x) ==
    IF x.t = "int" THEN Valid(x.v)
    ELSE IF x.t = "str" THEN Parsed(py_int(x.v), "int")
    ELSE Invalid

AsFloat(x) ==
    IF x.t = "float" THEN Valid(x.v)
    ELSE IF x.t = "int" THEN Valid(Float(100 * x.v))
    ELSE IF x.t = "str" THEN Parsed(py_float(x.v), "float")
    ELSE Invalid

AsStrList(x) ==
    IF x.t = "list" /\ \A i \in 1..Len(x.v) : x.v[i].t = "str"
    THEN Valid([i \in 1..Len(x.v) |-> x.v[i].v])
    ELSE Invalid

\* @validator("db_path"): resolve the path and create the directory; a
\* failing mkdir raises OSError, which is no ValueError
validate_db_path(v, mkfail) ==
    [ok |-> TRUE,
     raised |-> IF mkfail THEN "OSError" ELSE "none",
     v |-> resolve(v),
     created |-> IF mkfail THEN {} ELSE {resolve(v)}]

\* `not 0.0 <= v <= 1.0`: every comparison with NaN is false
InUnitRange(v) == ~v.nan /\ 0 <= v.x /\ v.x <= 100

\* only the upper end checked
validate_fuzzy_match_threshold_upper(v) ==
    IF v.nan \/ v.x > 100 THEN Invalid ELSE Valid(v)

\* @validator("fuzzy_match_threshold"): raises ValueError outside [0.0, 1.0]
validate_fuzzy_match_threshold(v) ==
    IF ~InUnitRange(v) THEN Invalid ELSE Valid(v)

\* a keyword dictionary: items with string keys, and the non-string keys
EmptyDict == [items |-> <<>>, intkeys |-> {}]
Has(d, k) == k \in DOMAIN d.items
SetItem(d, k, x) ==
    [d EXCEPT !.items =
        [j \in (DOMAIN d.items) \cup {k} |-> IF j = k THEN x ELSE d.items[j]]]

\* one field of the model: its default when no keyword supplies it (pydantic
\* does not validate a default), else the converted input
IntField(d, k) == IF Has(d, k) THEN AsInt(d.items[k]) ELSE Valid(Defaults[k])

ListField(d, k) ==
    IF Has(d, k) THEN AsStrList(d.items[k]) ELSE Valid(Defaults[k])

\* a validator runs only on an input that converted
RangeChecked(f) == IF f.ok THEN validate_fuzzy_match_threshold(f.v) ELSE f

ThresholdOf(d) ==
    IF Has(d, "fuzzy_match_threshold")
    THEN RangeChecked(AsFloat(d.items["fuzzy_match_threshold"]))
    ELSE Valid(Defaults.fuzzy_match_threshold)

PathChecked(p, mkfail) ==
    IF p.ok THEN validate_db_path(p.v, mkfail)
    ELSE [ok |-> FALSE, raised |-> "none", created |-> {}]

DbPathOf(d, mkfail) ==
    IF Has(d, "db_path") THEN PathChecked(AsPath(d.items["db_path"]), mkfail)
    ELSE [ok |-> TRUE, raised |-> "none", v |-> Defaults.db_path,
          created |-> {}]

\* the fields are validated in declaration order, db_path first: an OSError
\* of its validator leaves at once; conversion and ValueError failures are
\* collected into one ValidationError for the whole model
Validated(p, csl, ttl, dc, msr, thr) ==
    IF p.raised # "none"
    THEN [raised |-> p.raised, created |-> p.created]
    ELSE IF ~(p.ok /\ csl.ok /\ ttl.ok /\ dc.ok /\ msr.ok /\ thr.ok)
    THEN [raised |-> "ValidationError", created |-> p.created]
    ELSE [raised |-> "none",
          created |-> p.created,
          config |-> [db_path |-> p.v,
                      cache_size_limit |-> csl.v,
                      cache_ttl |-> ttl.v,
                      default_crates |-> dc.v,
                      max_search_results |-> msr.v,
                      fuzzy_match_threshold |-> thr.v]]

\* ServerConfig(**kwargs): TypeError for a keyword that is no string
ServerConfig(kwargs, mkfail) ==
    IF kwargs.intkeys # {}
    THEN [raised |-> "TypeError", created |-> {}]
    ELSE Validated(DbPathOf(kwargs, mkfail),
                   IntField(kwargs, "cache_size_limit"),
                   IntField(kwargs, "cache_ttl"),
                   ListField(kwargs, "default_crates"),
                   IntField(kwargs, "max_search_results"),
                   ThresholdOf(kwargs))

(***************************************************************************)
(* utils/config.py: load_config                                            *)
(***************************************************************************)
\* os.getenv(name) is None for an unset variable; `if os.getenv(name)` is
\* also false for a variable set to the empty string
Truthy(x) == x.t = "str" /\ x.v # <<>>

\* lines 82-83 and 97-98: the variable's text, whole or split at the commas
EnvStr(d, x, key) == IF Truthy(x) THEN SetItem(d, key, x) ELSE d

SplitList(pieces) == PyList([i \in 1..Len(pieces) |-> PyStr(pieces[i])])

EnvList(d, x, key) ==
    IF Truthy(x) THEN SetItem(d, key, SplitList(py_split(x.v))) ELSE d

\* lines 85-95 and 100-110: int() or float() of the variable; a ValueError
\* is answered with a warning and the key is left out
EnvParsed(d, key, r, type) == IF r.t = type THEN SetItem(d, key, r) ELSE d

EnvInt(d, x, key) ==
    IF Truthy(x) THEN EnvParsed(d, key, py_int(x.v), "int") ELSE d

EnvFloat(d, x, key) ==
    IF Truthy(x) THEN EnvParsed(d, key, py_float(x.v), "float") ELSE d

\* lines 79-110: the keyword dictionary after the environment is read
FromEnv(env) ==
    EnvFloat(
      EnvInt(
        EnvList(
          EnvInt(
            EnvInt(
              EnvStr(EmptyDict, env["RUST_DOCS_DB_PATH"], "db_path"),
              env["RUST_DOCS_CACHE_SIZE_LIMIT"], "cache_size_limit"),
            env["RUST_DOCS_CACHE_TTL"], "cache_ttl"),
          env["RUST_DOCS_DEFAULT_CRATES"], "default_crates"),
        env["RUST_DOCS_MAX_SEARCH_RESULTS"], "max_search_results"),
      env["RUST_DOCS_FUZZY_MATCH_THRESHOLD"], "fuzzy_match_threshold")

\* the variables whose int() or float() raised ValueError (a warning each)
EnvWarnings(env) ==
    {n \in {"RUST_DOCS_CACHE_SIZE_LIMIT", "RUST_DOCS_CACHE_TTL",
            "RUST_DOCS_MAX_SEARCH_RESULTS"} :
        Truthy(env[n]) /\ py_int(env[n].v).t # "int"}
    \cup {n \in {"RUST_DOCS_FUZZY_MATCH_THRESHOLD"} :
        Truthy(env[n]) /\ py_float(env[n].v).t # "float"}

\* dict.update(other) for a JSON document: a mapping is merged; a list is
\* read as key/value pairs, one at a time, and the first element that is no
\* pair raises with the earlier pairs already stored; anything else raises
StorePair(d, k, x) ==
    IF k.t = "key" THEN SetItem(d, k.v, x)
    ELSE [d EXCEPT !.intkeys = @ \cup {k.v}]

RECURSIVE UpdatePairs(_, _)
UpdatePairs(d, l) ==
    IF l = <<>> THEN [dict |-> d, raised |-> FALSE]
    ELSE IF Head(l).t = "list" /\ Len(Head(l).v) = 2
              /\ Head(l).v[1].t \in {"key", "int"}
    THEN UpdatePairs(StorePair(d, Head(l).v[1], Head(l).v[2]), Tail(l))
    ELSE [dict |-> d, raised |-> TRUE]

MergeItems(d, f) ==
    [d EXCEPT !.items =
        [j \in (DOMAIN d.items) \cup (DOMAIN f) |->
            IF j \in DOMAIN f THEN f[j] ELSE d.items[j]]]

dict_update(d, doc) ==
    IF doc.t = "dict" THEN [dict |-> MergeItems(d, doc.v), raised |-> FALSE]
    ELSE IF doc.t = "list" THEN UpdatePairs(d, doc.v)
    ELSE [dict |-> d, raised |-> TRUE]

Merged(u) ==
    [dict |-> u.dict,
     log |-> IF u.raised THEN {"Error loading config file"} ELSE {}]

\* lines 113-124: the file layer; every exception in it is caught and logged
FromFile(d, config_path, file) ==
    IF ~config_path THEN [dict |-> d, log |-> {}]
    ELSE IF file.kind = "missing"
    THEN [dict |-> d, log |-> {"Config file not found"}]
    ELSE IF file.kind \in {"unreadable", "malformed"}
    THEN [dict |-> d, log |-> {"Error loading config file"}]
    ELSE Merged(dict_update(d, file.doc))

\* lines 127-134: only pydantic.ValidationError is caught, and answered with
\* ServerConfig(); any other exception leaves load_config
Answer(m, fallback, w) ==
    IF m.raised = "none"
    THEN [raised |-> "none", config |-> m.config, created |-> m.created,
          log |-> w]
    ELSE IF m.raised = "ValidationError"
    THEN [raised |-> fallback.raised, config |-> fallback.config,
          created |-> m.created,
          log |-> w \cup {"Configuration validation error",
                          "Using default configuration"}]
    ELSE [raised |-> m.raised, created |-> m.created, log |-> w]

Construct(f, envlog, mkfail) ==
    Answer(ServerConfig(f.dict, mkfail), ServerConfig(EmptyDict, mkfail),
           envlog \cup f.log)

\* load_config(config_path): the environment layer, the file layer over it,
\* then ServerConfig(**config_dict)
load_config(config_path, env, file, mkfail) ==
    Construct(FromFile(FromEnv(env), config_path, file), EnvWarnings(env),
              mkfail)

(***************************************************************************)
(* tools/search_tools.py: the tool definitions (lines 13-85) and the       *)
(* signatures of their implementations                                     *)
(***************************************************************************)
NoDefault == [has |-> FALSE]
Default(x) == [has |-> TRUE, v |-> x]

\* the result cap of the configuration (10) taken for the default
search_rust_docs_sig_cap ==
    [query |-> NoDefault, crate |-> Default(None),
     max_results |-> Default(PyInt(10)), include_std |-> Default(PyBool(TRUE))]

search_rust_docs_sig ==
    [query |-> NoDefault, crate |-> Default(None),
     max_results |-> Default(PyInt(5)), include_std |-> Default(PyBool(TRUE))]

get_rust_doc_details_sig ==
    [item_path |-> NoDefault, include_examples |-> Default(PyBool(TRUE)),
     include_methods |-> Default(PyBool(TRUE))]

generate_crate_docs_sig ==
    [crate_path |-> NoDefault, include_dependencies |-> Default(PyBool(TRUE))]

search_rust_docs ==
    [name |-> "search_rust_docs",
     description |-> "Search Rust documentation using fuzzy matching",
     properties |->
        [query |-> [type |-> "string", default |-> NoDefault],
         crate |-> [type |-> "string", default |-> NoDefault],
         max_results |-> [type |-> "integer", default |-> Default(PyInt(5))],
         include_std |->
            [type |-> "boolean", default |-> Default(PyBool(TRUE))]],
     required |-> {"query"},
     function |-> "search_rust_docs_impl",
     signature |-> search_rust_docs_sig]

get_rust_doc_details ==
    [name |-> "get_rust_doc_details",
     description |-> "Get detailed documentation for a specific Rust item",
     properties |->
        [item_path |-> [type |-> "string", default |-> NoDefault],
         include_examples |->
            [type |-> "boolean", default |-> Default(PyBool(TRUE))],
         include_methods |->
            [type |-> "boolean", default |-> Default(PyBool(TRUE))]],
     required |-> {"item_path"},
     function |-> "get_rust_doc_details_impl",
     signature |-> get_rust_doc_details_sig]

generate_crate_docs ==
    [name |-> "generate_crate_docs",
     description |->
        "Generate and process documentation for a specific crate",
     properties |->
        [crate_path |-> [type |-> "string", default |-> NoDefault],
         include_dependencies |->
            [type |-> "boolean", default |-> Default(PyBool(TRUE))]],
     required |-> {"crate_path"},
     function |-> "generate_crate_docs_impl",
     signature |-> generate_crate_docs_sig]

(***************************************************************************)
(* tools/search_tools.py: the implementations (lines 88-145).  An f-string *)
(* message is the tuple of its parts.                                      *)
(***************************************************************************)
\* an empty query taken for "no filter": it lists an item
search_rust_docs_impl_lists(query, crate, max_results, include_std) ==
    [status |-> "success",
     message |-> <<"Search for '", query.v, "' not yet implemented">>,
     results |-> IF query.v = "" /\ max_results.v > 0
                 THEN PyList(<<PyStr("std::vec::Vec::push")>>)
                 ELSE PyList(<<>>)]

search_rust_docs_impl(query, crate, max_results, include_std) ==
    [status |-> "success",
     message |-> <<"Search for '", query.v, "' not yet implemented">>,
     results |-> PyList(<<>>)]

\* nothing found answered with a null documentation
get_rust_doc_details_impl_null(item_path, include_examples, include_methods) ==
    [status |-> "success",
     message |-> <<"Documentation retrieval for '", item_path.v,
                   "' not yet implemented">>,
     documentation |-> None]

get_rust_doc_details_impl(item_path, include_examples, include_methods) ==
    [status |-> "success",
     message |-> <<"Documentation retrieval for '", item_path.v,
                   "' not yet implemented">>,
     documentation |-> PyDict(<<>>)]

generate_crate_docs_impl(crate_path, include_dependencies) ==
    [status |-> "success",
     message |-> <<"Documentation generation for '", crate_path.v,
                   "' not yet implemented">>,
     doc_count |-> PyInt(0)]

\* Python's binding of a call's arguments: a parameter the caller leaves out
\* takes the default of the signature
Bind(sig, given) ==
    [p \in DOMAIN sig |-> IF p \in DOMAIN given THEN given[p] ELSE sig[p].v]

\* tool["function"](**arguments)
Dispatch(tool, a) ==
    CASE tool.function = "search_rust_docs_impl" ->
            search_rust_docs_impl(a.query, a.crate, a.max_results,
                                  a.include_std)
      [] tool.function = "get_rust_doc_details_impl" ->
            get_rust_doc_details_impl(a.item_path, a.include_examples,
                                      a.include_methods)
      [] tool.function = "generate_crate_docs_impl" ->
            generate_crate_docs_impl(a.crate_path, a.include_dependencies)

(***************************************************************************)
(* server.py                                                               *)
(***************************************************************************)
NoConfig == [set |-> FALSE]
Installed(c) == [set |-> TRUE, value |-> c]
NoServer == [built |-> FALSE]
NoCall == [raised |-> "no call"]

\* FastMCP(tools=[search_rust_docs, get_rust_doc_details, generate_crate_docs])
FastMCP == [built |-> TRUE,
            tools |-> <<search_rust_docs, get_rust_doc_details,
                        generate_crate_docs>>]

(***************************************************************************)
(* The inputs: the environment, the command line and the disk.             *)
(***************************************************************************)
EnvVars == {"RUST_DOCS_DB_PATH", "RUST_DOCS_CACHE_SIZE_LIMIT",
            "RUST_DOCS_CACHE_TTL", "RUST_DOCS_DEFAULT_CRATES",
            "RUST_DOCS_MAX_SEARCH_RESULTS", "RUST_DOCS_FUZZY_MATCH_THRESHOLD"}

EnvValues(n) ==
    CASE n = "RUST_DOCS_DB_PATH" -> {<<>>, <<".", "/", "e">>}
      [] n = "RUST_DOCS_CACHE_SIZE_LIMIT" -> {<<"1", "0", "0">>, <<"1", "g">>}
      [] n = "RUST_DOCS_CACHE_TTL" -> {<<"6", "0">>, <<"x">>}
      [] n = "RUST_DOCS_DEFAULT_CRATES" -> {<<"s", ",", "t">>}
      [] n = "RUST_DOCS_MAX_SEARCH_RESULTS" -> {<<"5">>, <<"5", ".", "0">>}
      [] n = "RUST_DOCS_FUZZY_MATCH_THRESHOLD" ->
            {<<"0", ".", "9">>, <<"1", ".", "5">>, <<"-", "0", ".", "1">>,
             <<"n", "a", "n">>, <<"h", "i">>}

AllEnvValues == UNION {EnvValues(n) : n \in EnvVars}

\* the settings of at most MaxEnvVars variables
EnvSettings ==
    {f \in UNION {[S -> AllEnvValues] :
                    S \in {T \in SUBSET EnvVars :
                             Cardinality(T) <= MaxEnvVars}} :
        \A n \in DOMAIN f : f[n] \in EnvValues(n)}

Environments ==
    {[n \in EnvVars |-> IF n \in DOMAIN f THEN PyStr(f[n]) ELSE None] :
        f \in EnvSettings}

FileValues(k) ==
    CASE k = "db_path" -> {PyStr(<<".", "/", "f">>), PyInt(5)}
      [] k = "cache_size_limit" -> {PyInt(200), PyStr(<<"b", "i", "g">>)}
      [] k = "cache_ttl" -> {PyInt(30), None}
      [] k = "default_crates" ->
            {PyList(<<PyStr(<<"s">>), PyStr(<<"r">>)>>), PyStr(<<"s">>)}
      [] k = "max_search_results" -> {PyInt(3), PyStr(<<"x">>)}
      [] k = "fuzzy_match_threshold" ->
            {PyFloat(Float(90)), PyFloat(Float(150)), PyStr(<<"h", "i">>)}

AllFileValues == UNION {FileValues(k) : k \in Fields}

JsonObjects ==
    {f \in UNION {[S -> AllFileValues] :
                    S \in {T \in SUBSET Fields :
                             Cardinality(T) <= MaxFileFields}} :
        \A k \in DOMAIN f : f[k] \in FileValues(k)}

\* JSON documents that are no object: a number, null, and lists of pairs
OtherJson ==
    {PyInt(42), None,
     PyList(<<PyList(<<PyKey("cache_ttl"), PyInt(30)>>), PyInt(7)>>),
     PyList(<<PyList(<<PyInt(1), PyInt(2)>>)>>)}

Files ==
    {[kind |-> "missing"], [kind |-> "unreadable"], [kind |-> "malformed"]}
    \cup {[kind |-> "json", doc |-> PyDict(f)] : f \in JsonObjects}
    \cup {[kind |-> "json", doc |-> j] : j \in OtherJson}

(***************************************************************************)
(* The process.                                                            *)
(***************************************************************************)
Init ==
    /\ environ \in Environments
    /\ argv_config \in BOOLEAN
    /\ cfgfile \in Files
    /\ ~argv_config => cfgfile.kind = "missing"
    /\ mkdir_fails \in BOOLEAN
    /\ dirs = {}
    /\ loaded = NoCall
    /\ config = NoConfig
    /\ server = NoServer
    /\ pc = "start"
    /\ call = [tool |-> "none"]
    /\ response = [status |-> "none"]

Inputs == <<environ, argv_config, cfgfile, mkdir_fails>>

\* what a load_config call left behind: was it given the path, did it raise,
\* the ServerConfig it returned and what it logged
Outcome(r, with_path) ==
    IF r.raised = "none"
    THEN [path |-> with_path, raised |-> "none", config |-> r.config,
          log |-> r.log]
    ELSE [path |-> with_path, raised |-> r.raised, log |-> r.log]
ToolState == <<call, response>>

\* a direct call load_config(path) or load_config(), as the tests make it
LoadConfig(with_path) ==
    /\ pc \in {"start", "imported"}
    /\ pc' = "imported"
    /\ with_path => argv_config
    /\ \E r \in {load_config(with_path, environ, cfgfile, mkdir_fails)} :
        /\ loaded' = Outcome(r, with_path)
        /\ dirs' = dirs \cup r.created
    /\ UNCHANGED <<Inputs, config, server, ToolState>>

\* create_server(config): config is None, or the value load_config returned
create_server(given) ==
    IF given.set
    THEN /\ config' = Installed(given.value)
         /\ server' = FastMCP
         /\ UNCHANGED <<loaded, dirs>>
    ELSE \E r \in {load_config(FALSE, environ, cfgfile, mkdir_fails)} :
         /\ loaded' = Outcome(r, FALSE)
         /\ dirs' = dirs \cup r.created
         /\ IF r.raised = "none"
            THEN config' = Installed(r.config) /\ server' = FastMCP
            ELSE UNCHANGED <<config, server>>

CreateServer ==
    /\ pc \in {"start", "imported"}
    /\ pc' = "imported"
    /\ \E given \in {NoConfig} \cup
            (IF loaded.raised = "none" THEN {Installed(loaded.config)} ELSE {}) :
          create_server(given)
    /\ UNCHANGED <<Inputs, ToolState>>

\* main(): load_config(args.config), create_server(config), server.run();
\* any exception on the way is logged and ends the process with sys.exit(1)
Main ==
    /\ pc = "start"
    /\ \E r \in {load_config(argv_config, environ, cfgfile, mkdir_fails)} :
        /\ loaded' = Outcome(r, argv_config)
        /\ dirs' = dirs \cup r.created
        /\ IF r.raised = "none"
           THEN /\ config' = Installed(r.config)
                /\ server' = FastMCP
                /\ pc' = "running"
           ELSE /\ pc' = "exited"
                /\ UNCHANGED <<config, server>>
    /\ UNCHANGED <<Inputs, ToolState>>

Next ==
    \/ \E with_path \in BOOLEAN : LoadConfig(with_path)
    \/ CreateServer
    \/ Main

Spec == Init /\ [][Next]_vars

(***************************************************************************)
(* The running server: tool calls arriving after main() has started it     *)
(* with no config file, the environment setting at most the result cap.    *)
(***************************************************************************)
InitTools ==
    /\ environ \in {e \in Environments : \A n \in EnvVars :
                        e[n].t = "str" => n = "RUST_DOCS_MAX_SEARCH_RESULTS"}
    /\ argv_config = FALSE
    /\ cfgfile = [kind |-> "missing"]
    /\ mkdir_fails = FALSE
    /\ \E r \in {load_config(FALSE, environ, cfgfile, FALSE)} :
        /\ dirs = r.created
        /\ loaded = Outcome(r, FALSE)
        /\ config = Installed(r.config)
    /\ server = FastMCP
    /\ pc = "running"
    /\ call = [tool |-> "none"]
    /\ response = [status |-> "none"]

Queries == {"", "push", "zzz"}
CrateNames == {None, PyStr("std"), PyStr("nosuchcrate")}
MaxResultsValues == {PyInt(0), PyInt(5)}
ItemPaths == {"", "nonexistent::path", "std::vec::Vec::push"}
CratePaths == {"", "./mycrate"}
Booleans == {PyBool(TRUE), PyBool(FALSE)}

\* the arguments of a request: every required one, each optional one sent
\* or left out
Arguments(values, required, optional) ==
    UNION {{a \in [required \cup S -> UNION {values[p] : p \in required \cup S}] :
              \A p \in DOMAIN a : a[p] \in values[p]} : S \in SUBSET optional}

SearchValues ==
    [query |-> {PyStr(q) : q \in Queries},
     crate |-> CrateNames,
     max_results |-> MaxResultsValues,
     include_std |-> Booleans]

DetailsValues ==
    [item_path |-> {PyStr(q) : q \in ItemPaths},
     include_examples |-> Booleans,
     include_methods |-> Booleans]

GenerateValues ==
    [crate_path |-> {PyStr(q) : q \in CratePaths},
     include_dependencies |-> Booleans]

Optional(tool) == (DOMAIN tool.properties) \ tool.required

\* the server calls a registered tool with the arguments of a request
Invoke(tool, given) ==
    /\ pc = "running"
    /\ server.built
    /\ \E a \in {Bind(tool.signature, given)} :
        /\ call' = [tool |-> tool.name, sent |-> DOMAIN given, args |-> a]
        /\ response' = Dispatch(tool, a)
    /\ UNCHANGED <<Inputs, dirs, loaded, config, server, pc>>

SearchRustDocs ==
    \E given \in Arguments(SearchValues, server.tools[1].required,
                           Optional(server.tools[1])) :
        Invoke(server.tools[1], given)

GetRustDocDetails ==
    \E given \in Arguments(DetailsValues, server.tools[2].required,
                           Optional(server.tools[2])) :
        Invoke(server.tools[2], given)

GenerateCrateDocs ==
    \E given \in Arguments(GenerateValues, server.tools[3].required,
                           Optional(server.tools[3])) :
        Invoke(server.tools[3], given)

NextTools ==
    \/ SearchRustDocs
    \/ GetRustDocDetails
    \/ GenerateCrateDocs

SpecTools == InitTools /\ [][NextTools]_vars

(***************************************************************************)
(* Properties of load_config and create_server, checked under Spec.        *)
(***************************************************************************)
Returned == loaded.raised = "none"

EnvVarOf(k) ==
    CASE k = "db_path" -> "RUST_DOCS_DB_PATH"
      [] k = "cache_size_limit" -> "RUST_DOCS_CACHE_SIZE_LIMIT"
      [] k = "cache_ttl" -> "RUST_DOCS_CACHE_TTL"
      [] k = "default_crates" -> "RUST_DOCS_DEFAULT_CRATES"
      [] k = "max_search_results" -> "RUST_DOCS_MAX_SEARCH_RESULTS"
      [] k = "fuzzy_match_threshold" -> "RUST_DOCS_FUZZY_MATCH_THRESHOLD"

IntFields == {"cache_size_limit", "cache_ttl", "max_search_results"}

\* the environment sets the variable of field k
EnvGiven(k) == environ[EnvVarOf(k)].t = "str" /\ environ[EnvVarOf(k)].v # <<>>
EnvText(k) == environ[EnvVarOf(k)].v

\* the variable's text is a value of the field's type and range
EnvValid(k) ==
    /\ EnvGiven(k)
    /\ k \in IntFields => py_int(EnvText(k)).t = "int"
    /\ k = "fuzzy_match_threshold" =>
          /\ py_float(EnvText(k)).t = "float"
          /\ InUnitRange(py_float(EnvText(k)).v)

EnvValue(k) ==
    CASE k \in IntFields -> py_int(EnvText(k)).v
      [] k = "fuzzy_match_threshold" -> py_float(EnvText(k)).v
      [] k = "default_crates" -> py_split(EnvText(k))
      [] k = "db_path" -> EnvText(k)

\* the last load_config call read a config file holding a JSON object
FileObject == loaded.path /\ cfgfile.kind = "json" /\ cfgfile.doc.t = "dict"
\* it read a JSON list, which dict.update takes for key/value pairs
FilePairs == loaded.path /\ cfgfile.kind = "json" /\ cfgfile.doc.t = "list"

FileGiven(k) == FileObject /\ k \in DOMAIN cfgfile.doc.v
FileEntry(k) == cfgfile.doc.v[k]

FileValid(k) ==
    /\ FileGiven(k)
    /\ k \in IntFields => FileEntry(k).t = "int"
    /\ k = "db_path" => FileEntry(k).t = "str"
    /\ k = "default_crates" => FileEntry(k).t = "list"
    /\ k = "fuzzy_match_threshold" =>
          FileEntry(k).t = "float" /\ InUnitRange(FileEntry(k).v)

FileValue(k) ==
    IF k = "default_crates"
    THEN [i \in 1..Len(FileEntry(k).v) |-> FileEntry(k).v[i].v]
    ELSE FileEntry(k).v

\* a source gives field k a value that is unparseable or invalid
BadlyGiven(k) ==
    (EnvGiven(k) /\ ~EnvValid(k)) \/ (FileGiven(k) /\ ~FileValid(k))

\* file over environment over built-in default
Layered(k) ==
    IF FileValid(k) THEN FileValue(k)
    ELSE IF EnvValid(k) THEN EnvValue(k)
    ELSE Defaults[k]

\* a path is compared by its final component, as the tests compare it
Same(k, expected, actual) ==
    IF k = "db_path" THEN PathName(expected) = PathName(actual)
    ELSE expected = actual

\* C1: every field of the ServerConfig load_config returns holds the config
\* file's value if the file supplies the field, else the environment's if it
\* is set and parseable, else the built-in default.  Stated for the fields no
\* source gives a bad value.
C1_LayeredSources ==
    (Returned /\ ~FilePairs) =>
        \A k \in Fields :
            ~BadlyGiven(k) => Same(k, Layered(k), loaded.config[k])

\* C2: when exactly one field is given an unparseable or invalid value, every
\* other field that the environment or the file validly supplies keeps its
\* supplied value in the returned ServerConfig.
C2_FallbackForThatFieldOnly ==
    (/\ Returned
     /\ ~FilePairs
     /\ Cardinality({k \in Fields : BadlyGiven(k)}) = 1) =>
        \A k \in Fields :
            (~BadlyGiven(k) /\ (FileValid(k) \/ EnvValid(k))) =>
                Same(k, Layered(k), loaded.config[k])

EnvThreshold == environ["RUST_DOCS_FUZZY_MATCH_THRESHOLD"]

EnvThresholdOutside ==
    /\ Truthy(EnvThreshold)
    /\ py_float(EnvThreshold.v).t = "float"
    /\ ~InUnitRange(py_float(EnvThreshold.v).v)

FileThresholdOutside ==
    /\ FileGiven("fuzzy_match_threshold")
    /\ FileEntry("fuzzy_match_threshold").t = "float"
    /\ ~InUnitRange(FileEntry("fuzzy_match_threshold").v)

\* C3 as claimed: whenever a fuzzy_match_threshold outside [0.0, 1.0] is
\* supplied through the config file or the environment, the returned
\* ServerConfig has the default threshold 0.7; every returned threshold is
\* within [0.0, 1.0].
C3_AnyOutsideThresholdRejected ==
    Returned =>
        /\ (EnvThresholdOutside \/ FileThresholdOutside) =>
                loaded.config.fuzzy_match_threshold =
                    Float(DefaultFuzzyMatchThreshold)
        /\ InUnitRange(loaded.config.fuzzy_match_threshold)

\* C3 as amended: whenever the fuzzy_match_threshold that takes effect (the
\* config file's when the file supplies one, otherwise the environment's) is
\* outside [0.0, 1.0], the ServerConfig load_config returns has the default
\* threshold 0.7; every returned threshold is within [0.0, 1.0].
C3_EffectiveOutsideThresholdRejected ==
    Returned =>
        /\ (\/ FileThresholdOutside
            \/ (EnvThresholdOutside /\ ~FileGiven("fuzzy_match_threshold"))) =>
                loaded.config.fuzzy_match_threshold =
                    Float(DefaultFuzzyMatchThreshold)
        /\ InUnitRange(loaded.config.fuzzy_match_threshold)

\* the scenario of the specification: 1.5 from a file, answered with 0.7
C3_Witness ==
    /\ Returned
    /\ FileThresholdOutside
    /\ FileEntry("fuzzy_match_threshold").v = Float(150)
    /\ loaded.config.fuzzy_match_threshold = Float(70)
    /\ "Using default configuration" \in loaded.log

\* C4: configuration loading never crashes the process: every load_config
\* call returns a ServerConfig and raises nothing, and main does not exit.
C4_LoadNeverCrashes == loaded.raised \in {"no call", "none"} /\ pc # "exited"

\* C9: once create_server has installed a configuration as the module-level
\* config, no later operation changes it.
C9_ConfigReadOnlyAfterLoad == [][config.set => config' = config]_vars

(***************************************************************************)
(* Properties of the tools, checked under SpecTools.                       *)
(***************************************************************************)
Called(name) == call.tool = name

\* C5: every tool call returns a response with a status of "success" or
\* "error", a message, and its data field present and of its type: results a
\* list, documentation a record, doc_count an integer.
C5_StableResponseSchema ==
    call.tool # "none" =>
        /\ {"status", "message"} \subseteq DOMAIN response
        /\ response.status \in {"success", "error"}
        /\ Called("search_rust_docs") =>
              "results" \in DOMAIN response /\ response.results.t = "list"
        /\ Called("get_rust_doc_details") =>
              /\ "documentation" \in DOMAIN response
              /\ response.documentation.t = "dict"
        /\ Called("generate_crate_docs") =>
              "doc_count" \in DOMAIN response /\ response.doc_count.t = "int"

C5_Witness ==
    /\ Called("get_rust_doc_details")
    /\ call.args.item_path = PyStr("nonexistent::path")
    /\ response.documentation = PyDict(<<>>)
    /\ response.status = "success"

Malformed ==
    \/ Called("get_rust_doc_details") /\ call.args.item_path = PyStr("")
    \/ Called("generate_crate_docs") /\ call.args.crate_path = PyStr("")
    \/ Called("search_rust_docs") /\ call.args.crate = PyStr("nosuchcrate")

\* C6: a call with malformed input (an empty item_path, an empty crate_path,
\* an unknown crate name) is answered with status "error" and a message, and
\* leaves the configuration and the registered tools as they were.
C6_MalformedInputIsAnError ==
    Malformed =>
        /\ response.status = "error"
        /\ "message" \in DOMAIN response
        /\ config = Installed(loaded.config)
        /\ server = FastMCP

\* C7: get_rust_doc_details for a path that names no stored item returns
\* status "error" with an empty documentation record; a search that matches
\* nothing returns status "success" with an empty results list.
C7_NotFound ==
    /\ (Called("get_rust_doc_details")
          /\ call.args.item_path = PyStr("nonexistent::path")) =>
            response.status = "error" /\ response.documentation = PyDict(<<>>)
    /\ (Called("search_rust_docs") /\ call.args.query = PyStr("zzz")) =>
            response.status = "success" /\ response.results = PyList(<<>>)

\* C8: search_rust_docs with the empty query returns an empty results
\* sequence, whatever crate, max_results and include_std are.
C8_EmptyQueryEmptyResults ==
    (Called("search_rust_docs") /\ call.args.query = PyStr("")) =>
        response.results = PyList(<<>>)

C8_Witness ==
    /\ Called("search_rust_docs")
    /\ call.args.query = PyStr("")
    /\ call.args.crate = PyStr("std")
    /\ call.args.max_results = PyInt(5)
    /\ call.args.include_std = PyBool(FALSE)
    /\ response.results = PyList(<<>>)

====
